---- MODULE Spec2Model ----
(***************************************************************************)
(* Model of the semantic search of src/api/huggingface_api.py              *)
(* (class HuggingFaceAPI): the embedding cache, the keyword prefilter, the *)
(* per-source similarity ranking (_search_in_dataframe) and the fusion of  *)
(* the curated and the bulk source (search_similar_cases).                 *)
(*                                                                         *)
(* Strings are sequences of characters; a character is written as a short  *)
(* TLA+ string.  Korean syllables are romanised, one token per syllable:   *)
(*   jo 조  hang 항  ho 호  beop 법  joe 죄  hyeong 형  min 민  sang 상     *)
(*   seu 스  to 토  king 킹  seong 성  beom 범  sa 사  gi 기               *)
(*   jeon 전  che 체  hae 해  seok 석  rye 례  pan 판  gyeol 결  mun 문     *)
(*   jeong 정  ryeong 령  kyu 큐  re 레  i 이  ti 티  deu 드  heo 허        *)
(*   ging 깅  pe 페                                                        *)
(***************************************************************************)
EXTENDS Integers, Sequences, FiniteSets, TLC

\* ------------------------------------------------------------------------
\* Bounds of the model
\* ------------------------------------------------------------------------
\* largest top_k a caller passes
MaxTopK == 5
\* an encoder failure hits the 1st .. MaxFault-th encoder call of a
\* per-source search (the 1st call encodes the query, the next ones the
\* candidates the cache does not hold)
MaxFault == 1
\* longest run of extra characters (newlines, blanks, letters) that follows
\* a citation or a case number passed to LawAPI
MaxPad == 1

\* ------------------------------------------------------------------------
\* Strings
\* ------------------------------------------------------------------------
\* Python `sub in s` on strings: sub occurs as a contiguous run of s
Contains(s, sub) ==
    \E i \in 0..(Len(s) - Len(sub)) :
        \A j \in 1..Len(sub) : s[i + j] = sub[j]

LowerChar(c) ==
    CASE c = "A" -> "a"
      [] c = "Q" -> "q"
      [] OTHER -> c

\* str.lower()
Lower(s) == [i \in 1..Len(s) |-> LowerChar(s[i])]

IsSpace(c) == c = " "

RECURSIVE SplitFrom(_, _, _)
SplitFrom(s, i, word) ==
    IF i > Len(s)
    THEN IF word = <<>> THEN <<>> ELSE <<word>>
    ELSE IF IsSpace(s[i])
         THEN IF word = <<>>
              THEN SplitFrom(s, i + 1, <<>>)
              ELSE <<word>> \o SplitFrom(s, i + 1, <<>>)
         ELSE SplitFrom(s, i + 1, Append(word, s[i]))

\* str.split(): the maximal runs of non-space characters
Split(s) == SplitFrom(s, 1, <<>>)

\* ------------------------------------------------------------------------
\* Program constants of HuggingFaceAPI
\* ------------------------------------------------------------------------
\* source="큐레이티드" and source="허깅페이스"
CURATED == <<"kyu", "re", "i", "ti", "deu">>
HUGGINGFACE == <<"heo", "ging", "pe", "i", "seu">>

\* "전체"
ALL_TYPES == <<"jeon", "che">>
\* no case_type passed (Python None)
NoCaseType == <<"None">>

\* case_type_map: "해석례", "판결문", "결정례", "법령" to the same with "_QA"
case_type_map_keys ==
    { <<"hae", "seok", "rye">>, <<"pan", "gyeol", "mun">>,
      <<"gyeol", "jeong", "rye">>, <<"beop", "ryeong">> }

case_type_map(case_type) == case_type \o <<"_", "Q", "A">>

\* legal_keywords = ['조','항','호','법','죄','형법','민법','상법','스토킹','성범죄','사기']
legal_keywords ==
    << <<"jo">>, <<"hang">>, <<"ho">>, <<"beop">>, <<"joe">>,
       <<"hyeong", "beop">>, <<"min", "beop">>, <<"sang", "beop">>,
       <<"seu", "to", "king">>, <<"seong", "beom", "joe">>, <<"sa", "gi">> >>

\* min_similarity, in hundredths: 0.05 for the curated source, else 0.1
MinSimCurated == 5
MinSimBulk == 10
min_similarity(source) == IF source = CURATED THEN MinSimCurated ELSE MinSimBulk

\* search_df.sample(min(1000, len(search_df))): the cap of the random sample,
\* scaled from 1000 to 2 so that a corpus of the model can exceed it
SAMPLE_CAP == 2

\* ------------------------------------------------------------------------
\* The corpora
\* ------------------------------------------------------------------------
\* _load_curated_dataset: the row built from one entry of
\* curated_legal_dataset.json (key_legal_points and applicable_laws empty,
\* sentence and compensation empty).  The labels of `output` are
\* "판결 요지: ", "핵심 법리: ", "적용 법령: ", "형량: ", "손해배상: ".
CuratedRow(case_id, title, summary, category) ==
    [id |-> case_id,
     case_number |-> case_id,
     case_name |-> title,
     court_code |-> <<"c">>,
     final_date |-> <<"d">>,
     input |-> title \o <<" ">> \o summary,
     output |-> <<"pan", "gyeol", " ", "yo", "ji", ":", " ">> \o summary
                \o <<"\n", "haek", "sim", " ", "beop", "ri", ":", " ">>
                \o <<"\n", "jeok", "yong", " ", "beop", "ryeong", ":", " ">>
                \o <<"\n", "hyeong", "ryang", ":", " ">>
                \o <<"\n", "son", "hae", "bae", "sang", ":", " ">>,
     data_type |-> CURATED \o <<"_">> \o category]

\* a row of the bulk dataset (self.dataset['all'].to_pandas())
BulkRow(id, case_number, case_name, input, output, data_type) ==
    [id |-> id, case_number |-> case_number, case_name |-> case_name,
     court_code |-> <<"c">>, final_date |-> <<"d">>,
     input |-> input, output |-> output, data_type |-> data_type]

\* Entries the curated file can hold, in file order.
\*   1: "사기_법" / "a"      2: "죄" / "b"      3: "형법" / "a"
\*   4: key "1_사기", title "법": its case_key equals that of entry 1
CuratedPool ==
    << CuratedRow(<<"1">>, <<"sa", "gi", "_", "beop">>, <<"a">>, <<"x">>),
       CuratedRow(<<"2">>, <<"joe">>, <<"b">>, <<"x">>),
       CuratedRow(<<"3">>, <<"hyeong", "beop">>, <<"a">>, <<"y">>),
       CuratedRow(<<"1", "_", "sa", "gi">>, <<"beop">>, <<"sa", "gi">>, <<"x">>) >>

\* Rows the bulk dataset can hold, in dataset order.
\*   1: the case of curated entry 2 ("2", "죄"), text "사기" / "a"
\*   2: named "사기", text "죄" / "a"      3: text "b" / "x"
\*   4: id "9_판결문", data_type "QA" (the cache key of row 1), output "법"
BulkPool ==
    << BulkRow(<<"9">>, <<"2">>, <<"joe">>, <<"sa", "gi">>, <<"a">>,
               <<"pan", "gyeol", "mun", "_", "Q", "A">>),
       BulkRow(<<"8">>, <<"5">>, <<"sa", "gi">>, <<"joe">>, <<"a">>,
               <<"hae", "seok", "rye", "_", "Q", "A">>),
       BulkRow(<<"7">>, <<"6">>, <<"y">>, <<"b">>, <<"x">>,
               <<"pan", "gyeol", "mun", "_", "Q", "A">>),
       BulkRow(<<"9", "_", "pan", "gyeol", "mun">>, <<"7">>, <<"z">>, <<"a">>,
               <<"beop">>, <<"Q", "A">>) >>

\* the dataframes a load can produce: the first n rows of a pool, an empty
\* dataframe (n = 0) when the load failed or the file is missing
Dataframes(pool) == {SubSeq(pool, 1, n) : n \in 0..Len(pool)}

\* the queries, top_k values, case types and encoder faults of a search
\*   "사기" and "형법 A"
Queries ==
    { <<"sa", "gi">>, <<"hyeong", "beop", " ", "A">> }

TopKs == 0..MaxTopK

\* none, "전체", "판결문", and "기타" which case_type_map does not know
CaseTypes == { NoCaseType, ALL_TYPES, <<"pan", "gyeol", "mun">>, <<"gi", "ta">> }

\* <<curated_fault, hf_fault>>: the encoder call of the curated and of the
\* bulk search that raises (0: none); one search fails, or both at the
\* same call
Faults ==
    {<<0, 0>>} \cup UNION {{<<f, 0>>, <<0, f>>, <<f, f>>} : f \in 1..MaxFault}

\* ------------------------------------------------------------------------
\* The embedding encoder and cosine similarity
\* ------------------------------------------------------------------------
\* SentenceTransformer.encode: a deterministic map from a text to a vector.
\* The values are the model's own; this codebook stands for them.  The
\* vectors have integer norms (13, 17, 13, 13, 0).
Encode(text) ==
    CASE Contains(text, <<"sa", "gi">>) -> <<12, 5>>
      [] Contains(text, <<"joe">>) -> <<8, -15>>
      [] Contains(text, <<"jo">>) -> <<-12, -5>>
      [] Contains(text, <<"beop">>) \/ Contains(text, <<"b">>) -> <<5, 12>>
      [] OTHER -> <<0, 0>>

\* every text the encoder can be given: the texts of the rows and the queries
RowText(row) == row.input \o <<" ">> \o row.output

AllRows == {CuratedPool[n] : n \in 1..Len(CuratedPool)}
               \cup {BulkPool[n] : n \in 1..Len(BulkPool)}

\* Encode, evaluated once per text
EncodeMemo == [text \in {RowText(r) : r \in AllRows} \cup Queries |-> Encode(text)]

\* self.encoder.encode([text])[0]
encode(text) == EncodeMemo[text]

Dot(u, v) == u[1] * v[1] + u[2] * v[2]

ISqrt(n) == CHOOSE r \in 0..n : r * r <= n /\ n < (r + 1) * (r + 1)

\* the norms of the encoder's vectors, evaluated once
NormMemo == [u \in {EncodeMemo[t] : t \in DOMAIN EncodeMemo} |-> ISqrt(Dot(u, u))]

Norm(u) == NormMemo[u]

\* sklearn cosine_similarity of two vectors, in hundredths (rounded down);
\* a zero vector is normalised by 1 and has similarity 0
Cosine(u, v) ==
    IF Norm(u) = 0 \/ Norm(v) = 0
    THEN 0
    ELSE (100 * Dot(u, v)) \div (Norm(u) * Norm(v))

\* ------------------------------------------------------------------------
\* Keyword prefilter (stage 1 of _search_in_dataframe)
\* ------------------------------------------------------------------------
Min(a, b) == IF a < b THEN a ELSE b

\* Python seq[:n] for n >= 0
Take(seq, n) == SubSeq(seq, 1, Min(n, Len(seq)))

RECURSIVE SumSeq(_)
SumSeq(seq) == IF seq = <<>> THEN 0 ELSE Head(seq) + SumSeq(Tail(seq))

\* "if query_lower in input_text or ... in output_text or ... in case_name"
FullQueryScore(row, query_lower) ==
    IF \/ Contains(Lower(row.input), query_lower)
       \/ Contains(Lower(row.output), query_lower)
       \/ Contains(Lower(row.case_name), query_lower)
    THEN 3 ELSE 0

\* one point per query word longer than one character found in input or output
WordScore(row, word) ==
    IF Len(word) > 1
       /\ (Contains(Lower(row.input), word) \/ Contains(Lower(row.output), word))
    THEN 1 ELSE 0

\* "if keyword in query_lower and keyword in input_text or keyword in
\* output_text": Python binds `and` tighter than `or`
LegalKeywordScore(row, query_lower, keyword) ==
    IF \/ (Contains(query_lower, keyword) /\ Contains(Lower(row.input), keyword))
       \/ Contains(Lower(row.output), keyword)
    THEN 2 ELSE 0

keyword_score(row, query_lower) ==
    LET query_words == Split(query_lower)
    IN  FullQueryScore(row, query_lower)
        + SumSeq([w \in 1..Len(query_words) |-> WordScore(row, query_words[w])])
        + SumSeq([k \in 1..Len(legal_keywords) |->
                     LegalKeywordScore(row, query_lower, legal_keywords[k])])

\* keyword_score of every row for query.lower(), evaluated once per pair
ScoreMemo == [query \in Queries |-> [row \in AllRows |-> keyword_score(row, Lower(query))]]

\* mutant of search_df: a case_type the map does not know leaves no row
search_df_strict(df, case_type) ==
    IF case_type # NoCaseType /\ case_type # <<>> /\ case_type # ALL_TYPES
    THEN IF case_type \in case_type_map_keys
         THEN SelectSeq([i \in 1..Len(df) |-> i],
                        LAMBDA i : Contains(df[i].data_type, case_type_map(case_type)))
         ELSE <<>>
    ELSE [i \in 1..Len(df) |-> i]

\* mutant of search_df: the case_type is ignored
search_df_unfiltered(df, case_type) == [i \in 1..Len(df) |-> i]

\* A dataframe is a sequence of rows; a row is addressed by its position (the
\* index label).  search_df is the sequence of the positions kept by the
\* case_type filter.
\* "if case_type and case_type != '전체'" and "if case_type in case_type_map"
search_df(df, case_type) ==
    IF case_type # NoCaseType /\ case_type # <<>> /\ case_type # ALL_TYPES
       /\ case_type \in case_type_map_keys
    THEN SelectSeq([i \in 1..Len(df) |-> i],
                   LAMBDA i : Contains(df[i].data_type, case_type_map(case_type)))
    ELSE [i \in 1..Len(df) |-> i]

\* keyword_matches: (idx, keyword_score) of the rows with keyword_score > 0
keyword_matches(df, idxs, query) ==
    SelectSeq([n \in 1..Len(idxs) |->
                  <<idxs[n], ScoreMemo[query][df[idxs[n]]]>>],
              LAMBDA m : m[2] > 0)

\* mutant of FirstMax: of the entries with the highest score the last one
LastMax(matches) ==
    CHOOSE n \in 1..Len(matches) :
        /\ \A k \in 1..Len(matches) : matches[k][2] <= matches[n][2]
        /\ \A k \in (n + 1)..Len(matches) : matches[k][2] < matches[n][2]

\* position of the first entry with the highest score
FirstMax(matches) ==
    CHOOSE n \in 1..Len(matches) :
        /\ \A k \in 1..Len(matches) : matches[k][2] <= matches[n][2]
        /\ \A k \in 1..(n - 1) : matches[k][2] < matches[n][2]

RemoveAt(seq, n) == SubSeq(seq, 1, n - 1) \o SubSeq(seq, n + 1, Len(seq))

\* list.sort(key=score, reverse=True): stable, equal scores keep their order
RECURSIVE SortByScoreDesc(_)
SortByScoreDesc(matches) ==
    IF matches = <<>>
    THEN <<>>
    ELSE LET n == FirstMax(matches)
         IN  <<matches[n]>> \o SortByScoreDesc(RemoveAt(matches, n))

\* selected_indices = [idx for idx, score in keyword_matches[:top_k*3]]
selected_indices(matches, top_k) ==
    LET sorted == SortByScoreDesc(matches)
        cut == Take(sorted, top_k * 3)
    IN  [n \in 1..Len(cut) |-> cut[n][1]]

Range(seq) == {seq[n] : n \in 1..Len(seq)}

\* DataFrame.sample(n): n distinct rows in a random order
Samples(idxs, n) ==
    {s \in [1..n -> Range(idxs)] : \A a, b \in 1..n : a # b => s[a] # s[b]}

\* mutant of filtered_df: the keyword matches are ignored
SampleAlways(df, idxs, query, top_k, source) ==
    IF source = CURATED
    THEN {idxs}
    ELSE Samples(idxs, Min(SAMPLE_CAP, Len(idxs)))

\* filtered_df: every row sequence stage 2 can hand to the embedding stage
filtered_df(df, idxs, query, top_k, source) ==
    LET matches == keyword_matches(df, idxs, query)
    IN  IF matches # <<>>
        THEN {selected_indices(matches, top_k)}
        ELSE IF source = CURATED
             THEN {idxs}
             ELSE Samples(idxs, Min(SAMPLE_CAP, Len(idxs)))

\* ------------------------------------------------------------------------
\* Embedding cache (stage 3 of _search_in_dataframe)
\* ------------------------------------------------------------------------
\* cache_key = f"{row['id']}_{row['data_type']}_{source}"
cache_key(row, source) == row.id \o <<"_">> \o row.data_type \o <<"_">> \o source

\* mutant of CacheHit: the lookup always misses
CacheNeverHit(cache, key) == FALSE

\* "if cache_key in self.embeddings_cache"
CacheHit(cache, key) == key \in DOMAIN cache

\* mutant of CachePut: the cache is replaced by the new entry
CachePutAlone(cache, key, vec) == [k \in {key} |-> vec]

\* self.embeddings_cache[cache_key] = embedding
CachePut(cache, key, vec) ==
    [k \in (DOMAIN cache) \cup {key} |-> IF k = key THEN vec ELSE cache[k]]

\* The loop over filtered_df.  calls counts the encoder calls of this search
\* so far; the encoder call number `fault` raises (0: none does).  Each log
\* entry records one candidate: its key, whether the cache held it, whether
\* the encoder was invoked, and the vector used.
RECURSIVE EmbedLoop(_, _, _, _, _, _, _, _, _)
EmbedLoop(df, cands, n, source, cache, calls, fault, embs, log) ==
    IF n > Len(cands)
    THEN [raised |-> FALSE, cache |-> cache, embs |-> embs, log |-> log]
    ELSE LET row == df[cands[n]]
             key == cache_key(row, source)
         IN  IF CacheHit(cache, key)
             THEN EmbedLoop(df, cands, n + 1, source, cache, calls, fault,
                            Append(embs, cache[key]),
                            Append(log, [key |-> key, hit |-> TRUE,
                                         encoded |-> FALSE, vec |-> cache[key]]))
             ELSE IF calls + 1 = fault
                  THEN [raised |-> TRUE, cache |-> cache, embs |-> embs,
                        log |-> Append(log, [key |-> key, hit |-> FALSE,
                                             encoded |-> FALSE, vec |-> <<>>])]
                  ELSE LET vec == encode(RowText(row))
                       IN  EmbedLoop(df, cands, n + 1, source,
                                     CachePut(cache, key, vec), calls + 1, fault,
                                     Append(embs, vec),
                                     Append(log, [key |-> key, hit |-> FALSE,
                                                  encoded |-> TRUE, vec |-> vec]))

\* ------------------------------------------------------------------------
\* Similarity ranking (stage 3 of _search_in_dataframe, continued)
\* ------------------------------------------------------------------------
\* similarities = cosine_similarity(query_embedding, text_embeddings)[0]
Similarities(query_embedding, embs) ==
    [n \in 1..Len(embs) |-> Cosine(query_embedding, embs[n])]

\* similarities.argsort(): numpy's default sort is not stable, so any
\* ascending arrangement of the positions can come out
Argsorts(sims) ==
    {p \in Permutations(1..Len(sims)) :
        \A a \in 1..(Len(sims) - 1) : sims[p[a]] <= sims[p[a + 1]]}

Reverse(seq) == [n \in 1..Len(seq) |-> seq[Len(seq) + 1 - n]]

\* Python seq[-k:] for k >= 0: the last k entries, all of them when k = 0
\* (seq[-0:] is seq[0:]) or k >= len(seq)
LastK(seq, k) ==
    IF k = 0 \/ k >= Len(seq) THEN seq ELSE SubSeq(seq, Len(seq) - k + 1, Len(seq))

\* mutant of top_indices: the [::-1] is missing
TopIndicesAscending(order, top_k) == LastK(order, top_k)

\* top_indices = similarities.argsort()[-top_k:][::-1]
top_indices(order, top_k) == Reverse(LastK(order, top_k))

\* the result dict of one row
Result(row, similarity_score, source, rank) ==
    [case_id |-> row.id, case_number |-> row.case_number,
     case_name |-> row.case_name, court_code |-> row.court_code,
     final_date |-> row.final_date, input |-> row.input,
     output |-> row.output, data_type |-> row.data_type,
     similarity |-> similarity_score, source |-> source, rank |-> rank]

\* mutant of BelowThreshold: nothing is dropped
BelowThresholdNever(similarity_score, source) == FALSE

\* "if similarity_score < min_similarity: continue"
BelowThreshold(similarity_score, source) == similarity_score < min_similarity(source)

\* the loop "for i, embedding_idx in enumerate(top_indices)"
RECURSIVE BuildResults(_, _, _, _, _, _)
BuildResults(df, valid_indices, sims, top, source, n) ==
    IF n > Len(top)
    THEN <<>>
    ELSE LET row == df[valid_indices[top[n]]]
             rest == BuildResults(df, valid_indices, sims, top, source, n + 1)
         IN  IF BelowThreshold(sims[top[n]], source)
             THEN rest
             ELSE <<Result(row, sims[top[n]], source, n)>> \o rest

\* What one call of _search_in_dataframe does: the list it returns, the cache
\* it leaves, the candidates it processed, whether an exception was raised
\* inside it and whether that exception left it
Outcome(results, cache, log, raised, escaped) ==
    [results |-> results, cache |-> cache, log |-> log, raised |-> raised,
     escaped |-> escaped]

\* mutant of Caught: no except clause, the exception leaves the search
Propagated(cache, log) == Outcome(<<>>, cache, log, TRUE, TRUE)

\* "except Exception as e: print(...); return []"
Caught(cache, log) == Outcome(<<>>, cache, log, TRUE, FALSE)

\* the embedding stage and the ranking for one filtered_df
RankCandidates(df, cands, query, top_k, source, cache, fault) ==
    IF fault = 1
    THEN {Caught(cache, <<>>)}
    ELSE LET query_embedding == encode(query)
             loop == EmbedLoop(df, cands, 1, source, cache, 1, fault, <<>>, <<>>)
         IN  IF loop.raised
             THEN {Caught(loop.cache, loop.log)}
             ELSE IF loop.embs = <<>>
                  THEN {Outcome(<<>>, loop.cache, loop.log, FALSE, FALSE)}
                  ELSE LET sims == Similarities(query_embedding, loop.embs)
                       IN  {Outcome(BuildResults(df, cands, sims,
                                                 top_indices(order, top_k),
                                                 source, 1),
                                    loop.cache, loop.log, FALSE, FALSE) :
                               order \in Argsorts(sims)}

\* What a call of _search_in_dataframe went through, next to its outcome: the
\* top_k it was given, search_df (pool), keyword_matches (matches) and the
\* rows of filtered_df in their order (cands)
Staged(outcome, top_k, pool, matches, cands) ==
    [results |-> outcome.results, cache |-> outcome.cache, log |-> outcome.log,
     raised |-> outcome.raised, escaped |-> outcome.escaped,
     queried |-> TRUE, top_k |-> top_k, pool |-> pool, matches |-> matches,
     cands |-> cands]

\* search_similar_cases skips a source whose dataframe is empty
NotQueried(cache) ==
    [results |-> <<>>, cache |-> cache, log |-> <<>>, raised |-> FALSE,
     escaped |-> FALSE, queried |-> FALSE, top_k |-> 0, pool |-> <<>>,
     matches |-> <<>>, cands |-> <<>>]

\* _search_in_dataframe(df, query, top_k, case_type, source): the set of its
\* possible outcomes with the encoder loaded or not, the given cache, and the
\* encoder raising at its call number fault
_search_in_dataframe(df, query, top_k, case_type, source, encoder, cache, fault) ==
    IF df = <<>> \/ encoder = "None"
    THEN {Staged(Outcome(<<>>, cache, <<>>, FALSE, FALSE), top_k, <<>>, <<>>, <<>>)}
    ELSE LET idxs == search_df(df, case_type)
         IN  IF idxs = <<>>
             THEN {Staged(Outcome(<<>>, cache, <<>>, FALSE, FALSE),
                          top_k, idxs, <<>>, <<>>)}
             ELSE LET matches == keyword_matches(df, idxs, query)
                  IN  UNION {{Staged(o, top_k, idxs, matches, cands) :
                                 o \in RankCandidates(df, cands, query, top_k,
                                                      source, cache, fault)} :
                                cands \in filtered_df(df, idxs, query, top_k, source)}

\* ------------------------------------------------------------------------
\* Fusion (search_similar_cases)
\* ------------------------------------------------------------------------
\* case_key = f"{result['case_number']}_{result['case_name']}"
case_key(result) == result.case_number \o <<"_">> \o result.case_name

\* mutant of Dedup: seen_cases is not consulted
RECURSIVE DedupKeepAll(_, _, _, _)
DedupKeepAll(all_results, seen_cases, final, top_k) ==
    IF all_results = <<>>
    THEN final
    ELSE IF Len(final) + 1 >= top_k
         THEN Append(final, Head(all_results))
         ELSE DedupKeepAll(Tail(all_results), seen_cases,
                           Append(final, Head(all_results)), top_k)

\* the loop over all_results: a result is kept when its key is new, and the
\* loop breaks once len(final_results) >= top_k after an append
RECURSIVE Dedup(_, _, _, _)
Dedup(all_results, seen_cases, final, top_k) ==
    IF all_results = <<>>
    THEN final
    ELSE LET result == Head(all_results)
         IN  IF case_key(result) \notin seen_cases
             THEN IF Len(final) + 1 >= top_k
                  THEN Append(final, result)
                  ELSE Dedup(Tail(all_results), seen_cases \cup {case_key(result)},
                             Append(final, result), top_k)
             ELSE Dedup(Tail(all_results), seen_cases, final, top_k)

\* mutant of Renumber: the ranks of the per-source searches are kept
RenumberNone(results) == results

\* "for i, result in enumerate(final_results): result['rank'] = i + 1"
Renumber(results) == [n \in 1..Len(results) |-> [results[n] EXCEPT !.rank = n]]

\* mutant of Fuse: the bulk results are put first
FuseBulkFirst(curated, bulk, top_k) ==
    Renumber(Dedup(bulk \o curated, {}, <<>>, top_k))

\* step 3 of search_similar_cases and the renumbering, on the concatenated per-source results
Fuse(curated, bulk, top_k) == Renumber(Dedup(curated \o bulk, {}, <<>>, top_k))

\* mutant of CuratedTopK: the + 1 is missing
CuratedTopKHalf(top_k) == top_k \div 2

\* top_k requested from the curated source: top_k//2 + 1
CuratedTopK(top_k) == (top_k \div 2) + 1

\* ------------------------------------------------------------------------
\* Citations (src/api/law_api.py): the regular expressions
\* ------------------------------------------------------------------------
\* \d
IsDigit(c) == c \in {"0", "1", "2", "3", "4", "5", "6", "7", "8", "9"}

\* \s
IsWhitespace(c) == c \in {" ", "\n", "\t"}

AllDigits(s) == \A n \in 1..Len(s) : IsDigit(s[n])

Drop(s, n) == SubSeq(s, n + 1, Len(s))

StartsWith(s, prefix) ==
    Len(s) >= Len(prefix) /\ SubSeq(s, 1, Len(prefix)) = prefix

\* the case-type alternation of both case patterns:
\* 도|바|노|마|차|러|허|므|두|후|고합|고단|초기|재|전|누|구|나|가|재나|재차|재허|
\* 재므|재두|재후|합|단|기|전합|전단|전기|누합|누단|누기|구합|구단|구기|나합|나단|
\* 나기|가합|가단|가기
case_type_codes ==
    { <<"do">>, <<"ba">>, <<"no">>, <<"ma">>, <<"cha">>, <<"reo">>, <<"heo">>,
      <<"meu">>, <<"du">>, <<"hu">>, <<"go", "hap">>, <<"go", "dan">>,
      <<"cho", "gi">>, <<"jae">>, <<"jeon">>, <<"nu">>, <<"gu">>, <<"na">>,
      <<"ga">>, <<"jae", "na">>, <<"jae", "cha">>, <<"jae", "heo">>,
      <<"jae", "meu">>, <<"jae", "du">>, <<"jae", "hu">>, <<"hap">>, <<"dan">>,
      <<"gi">>, <<"jeon", "hap">>, <<"jeon", "dan">>, <<"jeon", "gi">>,
      <<"nu", "hap">>, <<"nu", "dan">>, <<"nu", "gi">>, <<"gu", "hap">>,
      <<"gu", "dan">>, <<"gu", "gi">>, <<"na", "hap">>, <<"na", "dan">>,
      <<"na", "gi">>, <<"ga", "hap">>, <<"ga", "dan">>, <<"ga", "gi">> }

\* the court alternation of validate_legal_citation: 대법원|고등법원|지방법원
SUPREME_COURT == <<"dae", "beop", "won">>
court_prefixes ==
    { SUPREME_COURT, <<"go", "deung", "beop", "won">>,
      <<"ji", "bang", "beop", "won">> }

NoMatch == [matched |-> FALSE]

\* "$" without re.MULTILINE: the end of the string, or the position before
\* a newline that is the last character.  The text the pattern must cover:
BeforeDollar(s) ==
    IF s # <<>> /\ s[Len(s)] = "\n" THEN SubSeq(s, 1, Len(s) - 1) ELSE s

InClass(c, class) ==
    CASE class = "\\d" -> IsDigit(c)
      [] class = "\\s" -> IsWhitespace(c)
      [] class = "\\D" -> ~IsDigit(c)

\* length of the longest prefix of s made of characters of the class
RECURSIVE RunLength(_, _)
RunLength(s, class) ==
    IF s = <<>> \/ ~InClass(Head(s), class)
    THEN 0
    ELSE 1 + RunLength(Tail(s), class)

\* (\d{4})(도|바|...)(\d+) against the whole of s: the groups year,
\* case_type and number.  No code holds a digit, so the code is the run of
\* characters between the year and the next digit.
CaseNumberGroups(s) ==
    LET year == SubSeq(s, 1, 4)
        code == SubSeq(s, 5, 4 + RunLength(Drop(s, 4), "\\D"))
        num  == Drop(s, 4 + Len(code))
    IN  IF /\ Len(s) >= 6
           /\ AllDigits(year)
           /\ code \in case_type_codes
           /\ num # <<>>
           /\ AllDigits(num)
        THEN [matched |-> TRUE, year |-> year, case_type |-> code, number |-> num]
        ELSE NoMatch

\* re.match(r'^(\d{4})(도|...)(\d+)$', case_number) of verify_case_number
verify_case_pattern(case_number) == CaseNumberGroups(BeforeDollar(case_number))

\* re.match(r'^(대법원|고등법원|지방법원)?\s*(\d{4})(도|...)(\d+)$', citation):
\* the groups, with court <<>> when group 1 did not take part (None)
citation_case_pattern(citation) ==
    LET courts == {c \in court_prefixes : StartsWith(citation, c)}
        court  == IF courts = {} THEN <<>> ELSE CHOOSE c \in courts : TRUE
        rest   == Drop(citation, Len(court))
        number == Drop(rest, RunLength(rest, "\\s"))
        groups == CaseNumberGroups(BeforeDollar(number))
    IN  IF groups.matched
        THEN [matched |-> TRUE, court |-> court, year |-> groups.year,
              case_type |-> groups.case_type, number |-> groups.number]
        ELSE NoMatch

\* \s*제(\d+(?:의\d+)?)조$ against the whole of rest: group 2, the article
ArticleGroups(rest) ==
    LET body  == BeforeDollar(Drop(rest, RunLength(rest, "\\s")))
        main  == SubSeq(body, 2, 1 + RunLength(Drop(body, 1), "\\d"))
        after == Drop(body, 1 + Len(main))
        sub   == SubSeq(after, 2, 1 + RunLength(Drop(after, 1), "\\d"))
        tail  == IF after # <<>> /\ after[1] = "ui" /\ sub # <<>>
                 THEN Drop(after, 1 + Len(sub))
                 ELSE after
    IN  IF /\ body # <<>>
           /\ body[1] = "je"
           /\ main # <<>>
           /\ tail = <<"jo">>
        THEN [matched |-> TRUE, article |-> SubSeq(body, 2, Len(body) - 1)]
        ELSE NoMatch

\* mutant of law_pattern: group 1 is greedy, (.+) for (.+?)
law_pattern_greedy(citation) ==
    LET ends == {n \in 1..Len(citation) :
                    /\ \A k \in 1..n : citation[k] # "\n"
                    /\ ArticleGroups(Drop(citation, n)).matched}
    IN  IF ends = {}
        THEN NoMatch
        ELSE LET n == CHOOSE e \in ends : \A o \in ends : e >= o
             IN  [matched |-> TRUE, law_name |-> SubSeq(citation, 1, n),
                  article |-> ArticleGroups(Drop(citation, n)).article]

\* re.match(r'^(.+?)\s*제(\d+(?:의\d+)?)조$', citation): group 1 is the
\* shortest non-empty prefix without a newline ("." does not match one) after
\* which the rest of the pattern covers the rest of the citation
law_pattern(citation) ==
    LET ends == {n \in 1..Len(citation) :
                    /\ \A k \in 1..n : citation[k] # "\n"
                    /\ ArticleGroups(Drop(citation, n)).matched}
    IN  IF ends = {}
        THEN NoMatch
        ELSE LET n == CHOOSE e \in ends : \A o \in ends : e <= o
             IN  [matched |-> TRUE, law_name |-> SubSeq(citation, 1, n),
                  article |-> ArticleGroups(Drop(citation, n)).article]

\* ------------------------------------------------------------------------
\* The tables of LawAPI
\* ------------------------------------------------------------------------
\* dict.update: the entries of e replace those of d
Update(d, e) ==
    [k \in (DOMAIN d) \cup (DOMAIN e) |-> IF k \in DOMAIN e THEN e[k] ELSE d[k]]

CRIMINAL == <<"hyeong", "sa">>                       \* "형사"
GUILTY == <<"yu", "joe">>                            \* "유죄"
NO_INFO == <<"jeong", "bo", " ", "eop", "eum">>      \* "정보 없음"
AI_SEARCH == <<"A", "I", " ", "geom", "saek">>       \* "AI 검색"
DISTRICT_COURT == <<"ji", "bang", "beop", "won">>    \* "지방법원"

\* one entry of sample_cases; all entries have case_type "형사" and verdict
\* "유죄"; title, summary, main_issue, applicable_law and keywords are the
\* entry's own and are named after its position in the table
SampleCase(n, court, date) ==
    [exists |-> TRUE, title |-> <<"title", n>>, court |-> court, date |-> date,
     case_type |-> CRIMINAL, summary |-> <<"summary", n>>,
     main_issue |-> <<"main_issue", n>>, verdict |-> GUILTY,
     applicable_law |-> <<"applicable_law", n>>, keywords |-> <<"keywords", n>>]

\* sample_cases of verify_case_number: its 13 keys, in the order of the source
\*   2019도11772 2020도5432 2021도3456 2018도9876 (대법원)
\*   2022고합57 (서울중앙지방법원) 2022고단1234 (대전지방법원)
\*   2022고합144 (수원지방법원) 2022고합600 2022고합660 (서울중앙지방법원)
\*   2022고합3692 (서울남부지방법원) 2023고합88 (광주지방법원)
\*   2021고합456 (부산지방법원) 2020고합789 (대구지방법원)
sample_cases ==
    LET seoul == <<"seo", "ul", "jung", "ang">> \o DISTRICT_COURT
    IN
    ( <<"2", "0", "1", "9", "do", "1", "1", "7", "7", "2">>
          :> SampleCase("1", SUPREME_COURT, "2019-12-26")
   @@ <<"2", "0", "2", "0", "do", "5", "4", "3", "2">>
          :> SampleCase("2", SUPREME_COURT, "2020-03-15")
   @@ <<"2", "0", "2", "1", "do", "3", "4", "5", "6">>
          :> SampleCase("3", SUPREME_COURT, "2021-06-20")
   @@ <<"2", "0", "1", "8", "do", "9", "8", "7", "6">>
          :> SampleCase("4", SUPREME_COURT, "2018-11-10")
   @@ <<"2", "0", "2", "2", "go", "hap", "5", "7">>
          :> SampleCase("5", seoul, "2022-07-07")
   @@ <<"2", "0", "2", "2", "go", "dan", "1", "2", "3", "4">>
          :> SampleCase("6", <<"dae", "jeon">> \o DISTRICT_COURT, "2022-08-15")
   @@ <<"2", "0", "2", "2", "go", "hap", "1", "4", "4">>
          :> SampleCase("7", <<"su", "won">> \o DISTRICT_COURT, "2022-12-23")
   @@ <<"2", "0", "2", "2", "go", "hap", "6", "0", "0">>
          :> SampleCase("8", seoul, "2022-11-15")
   @@ <<"2", "0", "2", "2", "go", "hap", "6", "6", "0">>
          :> SampleCase("9", seoul, "2024-11-15")
   @@ <<"2", "0", "2", "2", "go", "hap", "3", "6", "9", "2">>
          :> SampleCase("10", <<"seo", "ul", "nam", "bu">> \o DISTRICT_COURT,
                        "2024-05-16")
   @@ <<"2", "0", "2", "3", "go", "hap", "8", "8">>
          :> SampleCase("11", <<"gwang", "ju">> \o DISTRICT_COURT, "2023-09-12")
   @@ <<"2", "0", "2", "1", "go", "hap", "4", "5", "6">>
          :> SampleCase("12", <<"bu", "san">> \o DISTRICT_COURT, "2021-10-08")
   @@ <<"2", "0", "2", "0", "go", "hap", "7", "8", "9">>
          :> SampleCase("13", <<"dae", "gu">> \o DISTRICT_COURT, "2020-12-18") )

CRIMINAL_CODE == <<"hyeong", "beop">>                \* "형법"
CIVIL_CODE == <<"min", "beop">>                      \* "민법"
\* "정보통신망 이용촉진 및 정보보호 등에 관한 법률"
NETWORK_ACT ==
    <<"jeong", "bo", "tong", "sin", "mang", " ", "i", "yong", "chok", "jin",
      " ", "mit", " ", "jeong", "bo", "bo", "ho", " ", "deung", "e", " ",
      "gwan", "han", " ", "beop", "ryul">>
NETWORK_ACT_SHORT == <<"jeong", "bo", "tong", "sin", "mang", "beop">>  \* "정보통신망법"

\* one entry of law_articles; title, content, category and subcategory are
\* the entry's own and are named after the entry
LawArticle(n, law_number) ==
    [title |-> <<"title", n>>, content |-> <<"content", n>>,
     law_number |-> law_number, category |-> <<"category", n>>,
     subcategory |-> <<"subcategory", n>>]

\* law_articles of get_law_article: 형법 243 and 347, 민법 750, and 44의7 of
\* the network act under its full and under its short name
law_articles ==
    ( CRIMINAL_CODE :>
        ( <<"2", "4", "3">> :>
              LawArticle("243", CRIMINAL_CODE \o <<" ", "je", "2", "4", "3", "jo">>)
       @@ <<"3", "4", "7">> :>
              LawArticle("347", CRIMINAL_CODE \o <<" ", "je", "3", "4", "7", "jo">>) )
   @@ CIVIL_CODE :>
        ( <<"7", "5", "0">> :>
              LawArticle("750", CIVIL_CODE \o <<" ", "je", "7", "5", "0", "jo">>) )
   @@ NETWORK_ACT :>
        ( <<"4", "4", "ui", "7">> :>
              LawArticle("44-7", NETWORK_ACT
                                   \o <<" ", "je", "4", "4", "jo", "ui", "7">>) )
   @@ NETWORK_ACT_SHORT :>
        ( <<"4", "4", "ui", "7">> :>
              LawArticle("44-7", NETWORK_ACT_SHORT
                                   \o <<" ", "je", "4", "4", "jo", "ui", "7">>) ) )

\* ------------------------------------------------------------------------
\* LawAPI.get_law_article, verify_case_number, validate_legal_citation
\* ------------------------------------------------------------------------
\* What a call does: the dict it returns, whether an exception left it, and
\* the steps it took ("re.match", "sample_cases", "OpenAIAPI",
\* "get_completion", "law_articles"), in order
Done(ret, steps) == [ret |-> ret, raised |-> FALSE, steps |-> steps]

\* "을 찾을 수 없습니다." of the messages
NOT_FOUND_TEXT == <<" ", "chat", "eul", " ", "su", " ", "eop", "seum", "ni", "da", ".">>

\* dict.get(key, default)
Get(d, key, default) == IF key \in DOMAIN d THEN d[key] ELSE default

\* mutant of InLawArticles: the lookup always misses
InLawArticlesNever(law_name, article_number) == FALSE

\* "law_name in law_articles and article_number in law_articles[law_name]"
InLawArticles(law_name, article_number) ==
    /\ law_name \in DOMAIN law_articles
    /\ article_number \in DOMAIN law_articles[law_name]

\* get_law_article(law_name, article_number)
get_law_article(law_name, article_number) ==
    IF InLawArticles(law_name, article_number)
    THEN Done(Update(law_articles[law_name][article_number],
                     [exists |-> TRUE]),
              <<"law_articles">>)
    ELSE Done([exists |-> FALSE,
               message |-> law_name \o <<" ", "je">> \o article_number
                               \o <<"jo", "reul">> \o NOT_FOUND_TEXT,
               law_number |-> law_name \o <<" ", "je">> \o article_number
                                  \o <<"jo">>],
              <<"law_articles">>)

\* The text-completion service as one call meets it:
\*   kind "unavailable": OpenAIAPI cannot be imported or constructed
\*   kind "raises":      get_completion raises
\*   kind "none":        get_completion returns None
\*   kind "text":        get_completion returns the text
\* A text is a sequence of characters and JSON tokens: "{", "}", ",", the
\* members "exists:true", "exists:false", "court:seoul", and "x" for any
\* other character.
Service(kind, text) == [kind |-> kind, text |-> text]

\* str.find(c) + 1: the first position of c, 0 when there is none
Find(text, c) ==
    IF \E n \in 1..Len(text) : text[n] = c
    THEN CHOOSE n \in 1..Len(text) :
             text[n] = c /\ \A k \in 1..(n - 1) : text[k] # c
    ELSE 0

\* str.rfind(c) + 1: the last position of c, 0 when there is none
RFind(text, c) ==
    IF \E n \in 1..Len(text) : text[n] = c
    THEN CHOOSE n \in 1..Len(text) :
             text[n] = c /\ \A k \in (n + 1)..Len(text) : text[k] # c
    ELSE 0

JSON_MEMBERS == {"exists:true", "exists:false", "court:seoul"}

\* json.loads(json_str) succeeds: "{", members separated by ",", "}"
IsJSONObject(json_str) ==
    /\ Len(json_str) >= 2
    /\ json_str[1] = "{"
    /\ json_str[Len(json_str)] = "}"
    /\ LET inner == SubSeq(json_str, 2, Len(json_str) - 1)
       IN  /\ Len(inner) = 0 \/ Len(inner) % 2 = 1
           /\ \A n \in 1..Len(inner) :
                 IF n % 2 = 1 THEN inner[n] \in JSON_MEMBERS ELSE inner[n] = ","

\* the dict json.loads returns (a later member replaces an earlier one)
JSONMembers(json_str) == {json_str[n] : n \in 2..(Len(json_str) - 1)}

\* result.get("exists") is truthy
JSONExists(json_str) ==
    LET at == {n \in 1..Len(json_str) :
                   json_str[n] \in {"exists:true", "exists:false"}}
    IN  /\ at # {}
        /\ json_str[CHOOSE n \in at : \A m \in at : m <= n] = "exists:true"

\* the dict of lines 578-590
AIFound(json_str) ==
    [exists |-> TRUE, title |-> NO_INFO,
     court |-> IF "court:seoul" \in JSONMembers(json_str)
               THEN <<"seo", "ul", "jung", "ang">> \o DISTRICT_COURT
               ELSE NO_INFO,
     date |-> NO_INFO, case_type |-> NO_INFO, summary |-> NO_INFO,
     main_issue |-> NO_INFO, verdict |-> NO_INFO, applicable_law |-> <<>>,
     keywords |-> <<>>, source |-> AI_SEARCH]

\* _search_case_with_ai(case_number, openai_api)
_search_case_with_ai(case_number, service, steps) ==
    LET asked == Append(steps, "get_completion")
    IN  IF service.kind \in {"raises", "none"}
        THEN \* "except Exception as e" (line 600): get_completion raised, or
             \* None has no find
             Done([exists |-> FALSE, error |-> <<"AI", "search", "failed">>], asked)
        ELSE LET response == service.text
                 json_start == Find(response, "{")
                 json_end == RFind(response, "}")
                 json_str == SubSeq(response, json_start, json_end)
             IN  IF json_start # 0 /\ json_end >= json_start
                 THEN IF ~IsJSONObject(json_str)
                      THEN Done([exists |-> FALSE,
                                 error |-> <<"AI", "parse", "failed">>], asked)
                      ELSE IF JSONExists(json_str)
                           THEN Done(AIFound(json_str), asked)
                           ELSE Done([exists |-> FALSE, source |-> AI_SEARCH], asked)
                 ELSE Done([exists |-> FALSE, error |-> <<"no", "JSON">>], asked)

\* the dict of lines 511-521
NotFound(case_number) ==
    [exists |-> FALSE,
     message |-> <<"pan", "rye", " ", "beon", "ho", " ", "'">> \o case_number
                     \o <<"'", "reul">> \o NOT_FOUND_TEXT,
     case_number |-> case_number,
     suggestion |-> <<"suggestion">>,
     search_links |-> [scourt |-> "https://glaw.scourt.go.kr/",
                       law |-> "https://www.law.go.kr/",
                       casenote |-> "https://casenote.kr/"]]

\* the dict of lines 328-332
InvalidFormat(case_number) ==
    [exists |-> FALSE,
     message |-> <<"jal", "mot", "doen", " ", "hyeong", "sik">>,
     case_number |-> case_number]

\* mutant of InSampleCases: the table is not consulted
InSampleCasesNever(case_number) == FALSE

\* "if case_number in sample_cases"
InSampleCases(case_number) == case_number \in DOMAIN sample_cases

\* "if use_ai_search"
AISearchEnabled(use_ai_search) == use_ai_search

\* mutant of AIResultAccepted: the result of the AI search is returned as is
AIResultAlwaysAccepted(ai_result) == TRUE

\* "if ai_result.get('exists')"
AIResultAccepted(ai_result) == Get(ai_result, "exists", FALSE)

\* verify_case_number(case_number, use_ai_search)
verify_case_number(case_number, use_ai_search, service) ==
    IF ~verify_case_pattern(case_number).matched
    THEN Done(InvalidFormat(case_number), <<"re.match">>)
    ELSE IF InSampleCases(case_number)
         THEN Done(sample_cases[case_number], <<"re.match", "sample_cases">>)
         ELSE IF AISearchEnabled(use_ai_search)
              THEN IF service.kind = "unavailable"
                   THEN \* "except Exception as e" (line 507)
                        Done(NotFound(case_number),
                             <<"re.match", "sample_cases", "OpenAIAPI">>)
                   ELSE LET ai == _search_case_with_ai(
                                      case_number, service,
                                      <<"re.match", "sample_cases", "OpenAIAPI">>)
                        IN  IF AIResultAccepted(ai.ret)
                            THEN Done(ai.ret, ai.steps)
                            ELSE Done(NotFound(case_number), ai.steps)
              ELSE Done(NotFound(case_number), <<"re.match", "sample_cases">>)

UNKNOWN == "unknown"
LAW_ARTICLE == "law_article"
CASE_NUMBER == "case_number"

\* validate_legal_citation(citation); the verify_case_number it calls uses
\* the default use_ai_search=True
validate_legal_citation(citation, service) ==
    LET law_match == law_pattern(citation)
        case_match == citation_case_pattern(citation)
    IN  IF law_match.matched
        THEN LET details == [law_name |-> law_match.law_name,
                             article_number |-> law_match.article]
                 article_info == get_law_article(law_match.law_name,
                                                 law_match.article)
             IN  IF Get(article_info.ret, "exists", FALSE)
                 THEN Done([citation |-> citation, is_valid |-> TRUE,
                            type |-> LAW_ARTICLE,
                            details |-> Update(details, article_info.ret)],
                           <<"law_pattern">> \o article_info.steps)
                 ELSE Done([citation |-> citation, is_valid |-> FALSE,
                            type |-> LAW_ARTICLE,
                            details |-> Update(details,
                                [error |-> Get(article_info.ret, "message",
                                               <<"no", "article">>)])],
                           <<"law_pattern">> \o article_info.steps)
        ELSE IF case_match.matched
        THEN LET court == IF case_match.court # <<>>
                          THEN case_match.court
                          ELSE SUPREME_COURT
                 full_case_num == case_match.year \o case_match.case_type
                                      \o case_match.number
                 details == [court |-> court, year |-> case_match.year,
                             case_type |-> case_match.case_type,
                             case_number |-> case_match.number,
                             full_case_number |-> full_case_num]
                 case_info == verify_case_number(full_case_num, TRUE, service)
             IN  IF Get(case_info.ret, "exists", FALSE)
                 THEN Done([citation |-> citation, is_valid |-> TRUE,
                            type |-> CASE_NUMBER,
                            details |-> Update(details, case_info.ret)],
                           <<"law_pattern", "case_pattern">> \o case_info.steps)
                 ELSE Done([citation |-> citation, is_valid |-> FALSE,
                            type |-> CASE_NUMBER,
                            details |-> Update(details,
                                [error |-> Get(case_info.ret, "message",
                                               <<"no", "case">>)])],
                           <<"law_pattern", "case_pattern">> \o case_info.steps)
        ELSE Done([citation |-> citation, is_valid |-> FALSE, type |-> UNKNOWN,
                   details |-> [error |-> <<"unknown", "citation", "format">>]],
                  <<"law_pattern", "case_pattern">>)

\* ------------------------------------------------------------------------
\* State
\* ------------------------------------------------------------------------
VARIABLES
    encoder,           \* self.encoder: "SBERT" or "None"
    curated_df,        \* self.curated_df
    df,                \* self.df
    embeddings_cache,  \* self.embeddings_cache: cache key -> vector
    pc,                \* "idle", or "returned" / "raised" after a search
    call,              \* the arguments of the search and the faults it met
    curated_results,   \* what the curated _search_in_dataframe returned
    hf_results,        \* what the bulk _search_in_dataframe returned
    final_results,     \* what search_similar_cases returned
    encode_log,        \* the candidates of the search, in order of processing
    last,              \* the arguments and the list of the search before
    law_pc,            \* "idle", or "returned" / "raised" after a LawAPI call
    law_call,          \* the LawAPI method called and its arguments
    law_result,        \* the dict the LawAPI call returned
    law_steps          \* the lookups and service calls it made, in order

vars == <<encoder, curated_df, df, embeddings_cache, pc, call,
          curated_results, hf_results, final_results, encode_log, last,
          law_pc, law_call, law_result, law_steps>>

law_vars == <<law_pc, law_call, law_result, law_steps>>

\* no LawAPI call is under way
NoLawCall == [op |-> "none", text |-> <<>>, law_name |-> <<>>,
              article_number |-> <<>>, use_ai_search |-> FALSE,
              service |-> [kind |-> "unavailable", text |-> <<>>]]

\* what the call record keeps of one per-source search
SourceCall(s) ==
    [queried |-> s.queried, top_k |-> s.top_k, pool |-> s.pool,
     matches |-> s.matches, cands |-> s.cands, log |-> s.log]

NoCall == [query |-> <<>>, top_k |-> 0, case_type |-> NoCaseType,
           curated_fault |-> 0, hf_fault |-> 0,
           curated_raised |-> FALSE, hf_raised |-> FALSE,
           cache_before |-> <<>>,
           curated |-> SourceCall(NotQueried(<<>>)),
           hf |-> SourceCall(NotQueried(<<>>))]

\* no search was made yet
NoLast == [query |-> <<>>, top_k |-> 0, case_type |-> NoCaseType,
           results |-> <<>>, failed |-> FALSE, made |-> FALSE]

\* HuggingFaceAPI.__init__: empty cache; the encoder loaded or not; the bulk
\* and the curated dataframe loaded (empty when the load failed)
Init ==
    /\ encoder \in {"SBERT", "None"}
    /\ curated_df \in Dataframes(CuratedPool)
    /\ df \in Dataframes(BulkPool)
    /\ embeddings_cache = <<>>
    /\ pc = "idle"
    /\ call = NoCall
    /\ curated_results = <<>>
    /\ hf_results = <<>>
    /\ final_results = <<>>
    /\ encode_log = <<>>
    /\ last = NoLast
    /\ law_pc = "idle"
    /\ law_call = NoLawCall
    /\ law_result = <<>>
    /\ law_steps = <<>>

\* the call record of a search
Call(query, top_k, case_type, curated_fault, hf_fault, c, h, cache_before) ==
    [query |-> query, top_k |-> top_k, case_type |-> case_type,
     curated_fault |-> curated_fault, hf_fault |-> hf_fault,
     curated_raised |-> c.raised, hf_raised |-> h.raised,
     cache_before |-> cache_before,
     curated |-> SourceCall(c), hf |-> SourceCall(h)]

\* search_similar_cases(query, top_k, case_type), with the encoder raising at
\* its call number curated_fault of the curated search and hf_fault of the
\* bulk search (0: not at all).  An exception that leaves a per-source search
\* leaves search_similar_cases too: nothing is returned.
search_similar_cases(query, top_k, case_type, curated_fault, hf_fault) ==
    /\ pc = "idle"
    /\ \E c \in (IF curated_df # <<>>
                 THEN _search_in_dataframe(curated_df, query, CuratedTopK(top_k),
                                           case_type, CURATED, encoder,
                                           embeddings_cache, curated_fault)
                 ELSE {NotQueried(embeddings_cache)}) :
       \E h \in (IF c.escaped
                 THEN {NotQueried(c.cache)}
                 ELSE IF df # <<>>
                      THEN _search_in_dataframe(df, query, top_k, case_type,
                                                HUGGINGFACE, encoder, c.cache,
                                                hf_fault)
                      ELSE {NotQueried(c.cache)}) :
          /\ curated_results' = c.results
          /\ hf_results' = h.results
          /\ final_results' = IF c.escaped \/ h.escaped
                              THEN <<>>
                              ELSE Fuse(c.results, h.results, top_k)
          /\ embeddings_cache' = h.cache
          /\ encode_log' = c.log \o h.log
          /\ call' = Call(query, top_k, case_type, curated_fault, hf_fault, c, h,
                          embeddings_cache)
          /\ pc' = IF c.escaped \/ h.escaped THEN "raised" ELSE "returned"
    /\ UNCHANGED <<encoder, curated_df, df, last, law_vars>>

\* the caller takes the returned list; the per-call values are gone
Return ==
    /\ pc # "idle"
    /\ pc' = "idle"
    /\ call' = NoCall
    /\ curated_results' = <<>>
    /\ hf_results' = <<>>
    /\ final_results' = <<>>
    /\ encode_log' = <<>>
    /\ last' = NoLast
    /\ UNCHANGED <<encoder, curated_df, df, embeddings_cache, law_vars>>

\* the caller keeps the returned list and the arguments it passed
Remember ==
    /\ pc = "returned"
    /\ pc' = "idle"
    /\ last' = [query |-> call.query, top_k |-> call.top_k,
                case_type |-> call.case_type, results |-> final_results,
                failed |-> call.curated_raised \/ call.hf_raised, made |-> TRUE]
    /\ call' = NoCall
    /\ curated_results' = <<>>
    /\ hf_results' = <<>>
    /\ final_results' = <<>>
    /\ encode_log' = <<>>
    /\ UNCHANGED <<encoder, curated_df, df, embeddings_cache, law_vars>>

Search ==
    \E query \in Queries, top_k \in TopKs, case_type \in CaseTypes,
       fault \in Faults :
        search_similar_cases(query, top_k, case_type, fault[1], fault[2])

Next == Search \/ Return

Spec == Init /\ [][Next]_vars

\* A caller that repeats a search: the same query, top_k and case_type as in
\* the search before, on the same corpora and with the cache that search left
SearchAgain ==
    /\ last.made
    /\ search_similar_cases(last.query, last.top_k, last.case_type, 0, 0)

SearchFirst == ~last.made /\ Search

NextRepeat == SearchFirst \/ SearchAgain \/ Remember \/ Return

SpecRepeat == Init /\ [][NextRepeat]_vars

\* ------------------------------------------------------------------------
\* Calls of LawAPI (SpecLaw)
\* ------------------------------------------------------------------------
\* the character sequences of length n over a set of characters
RECURSIVE Strings(_, _)
Strings(chars, n) ==
    IF n = 0
    THEN {<<>>}
    ELSE LET shorter == Strings(chars, n - 1)
         IN  shorter \cup {Append(s, c) : s \in {t \in shorter : Len(t) = n - 1},
                                          c \in chars}

\* what follows the text proper: nothing, or newlines, blanks and letters
Paddings == Strings({"\n", " ", "x"}, MaxPad)

\* 2019도11772 and 2022고합57 (keys of sample_cases), 2020도1 and 2019재나5
\* (well formed, no keys), 9999아99999 (아 is no code), 2022고57 (고 is no
\* code), 2019도 (no number), 219도1 (a year of 3 digits)
BaseCaseNumbers ==
    { <<"2", "0", "1", "9", "do", "1", "1", "7", "7", "2">>,
      <<"2", "0", "2", "2", "go", "hap", "5", "7">>,
      <<"2", "0", "2", "0", "do", "1">>,
      <<"2", "0", "1", "9", "jae", "na", "5">>,
      <<"9", "9", "9", "9", "ah", "9", "9", "9", "9", "9">>,
      <<"2", "0", "2", "2", "go", "5", "7">>,
      <<"2", "0", "1", "9", "do">>,
      <<"2", "1", "9", "do", "1">> }

CaseNumberInputs == {b \o p : b \in BaseCaseNumbers, p \in Paddings}

\* no prefix, the three prefixes of the pattern, and 서울중앙지방법원
CourtInputs ==
    {<<>>} \cup court_prefixes
        \cup {<<"seo", "ul", "jung", "ang">> \o DISTRICT_COURT}

Separators == {<<>>, <<" ">>}

\* 형법, 민법, the network act under both names, 형사법 (no key), and a name
\* that holds an article citation itself ("형법 제1조")
LawNameInputs ==
    { CRIMINAL_CODE, CIVIL_CODE, NETWORK_ACT, NETWORK_ACT_SHORT,
      <<"hyeong", "sa", "beop">>,
      CRIMINAL_CODE \o <<" ", "je", "1", "jo">> }

\* 243, 347, 750, 44의7, 1, and the malformed 의7 and 44의
ArticleInputs ==
    { <<"2", "4", "3">>, <<"3", "4", "7">>, <<"7", "5", "0">>,
      <<"4", "4", "ui", "7">>, <<"1">>, <<"ui", "7">>, <<"4", "4", "ui">> }

CaseCitations ==
    {c \o s \o b \o p : c \in CourtInputs, s \in Separators,
                        b \in BaseCaseNumbers, p \in Paddings}

LawCitations ==
    {l \o s \o <<"je">> \o a \o <<"jo">> \o p :
        l \in LawNameInputs, s \in Separators, a \in ArticleInputs,
        p \in Paddings}

CitationInputs == CaseCitations \cup LawCitations \cup {<<>>, <<"x">>}

\* the answers of the text-completion service
Responses ==
    { <<"{", "exists:true", "}">>,
      <<"x", "{", "exists:true", ",", "court:seoul", "}", "x">>,
      <<"{", "exists:false", "}">>,
      <<"{", "}">>,
      <<"{", "x", "}">>,
      <<"{", "exists:true", "}", "x", "{", "exists:false", "}">>,
      <<"{", "exists:true">>,
      <<"}", "{">>,
      <<"x">>,
      <<>> }

Services ==
    {Service(kind, <<>>) : kind \in {"unavailable", "raises", "none"}}
        \cup {Service("text", text) : text \in Responses}

\* the record of a call of LawAPI
LawCall(op, text, law_name, article_number, use_ai_search, service) ==
    [op |-> op, text |-> text, law_name |-> law_name,
     article_number |-> article_number, use_ai_search |-> use_ai_search,
     service |-> service]

\* a process that uses LawAPI only: no HuggingFaceAPI is loaded
InitLaw ==
    /\ Init
    /\ encoder = "None"
    /\ curated_df = <<>>
    /\ df = <<>>

search_vars == <<encoder, curated_df, df, embeddings_cache, pc, call,
                 curated_results, hf_results, final_results, encode_log, last>>

\* a call has returned (or raised) and its outcome is at hand
LawFinish(done, law_call_record) ==
    /\ law_pc = "idle"
    /\ law_pc' = IF done.raised THEN "raised" ELSE "returned"
    /\ law_result' = done.ret
    /\ law_steps' = done.steps
    /\ law_call' = law_call_record
    /\ UNCHANGED search_vars

VerifyCaseNumber ==
    /\ law_pc = "idle"
    /\ \E case_number \in CaseNumberInputs, use_ai_search \in BOOLEAN,
          service \in Services :
           LawFinish(verify_case_number(case_number, use_ai_search, service),
                     LawCall("verify_case_number", case_number, <<>>, <<>>,
                             use_ai_search, service))

ValidateLegalCitation ==
    /\ law_pc = "idle"
    /\ \E citation \in CitationInputs, service \in Services :
           LawFinish(validate_legal_citation(citation, service),
                     LawCall("validate_legal_citation", citation, <<>>, <<>>,
                             TRUE, service))

GetLawArticle ==
    /\ law_pc = "idle"
    /\ \E law_name \in LawNameInputs, article_number \in ArticleInputs :
           LawFinish(get_law_article(law_name, article_number),
                     LawCall("get_law_article", <<>>, law_name, article_number,
                             FALSE, Service("unavailable", <<>>)))

\* the caller takes the returned dict
LawReturn ==
    /\ law_pc # "idle"
    /\ law_pc' = "idle"
    /\ law_result' = <<>>
    /\ law_steps' = <<>>
    /\ law_call' = NoLawCall
    /\ UNCHANGED search_vars

NextLaw == VerifyCaseNumber \/ ValidateLegalCitation \/ GetLawArticle \/ LawReturn

SpecLaw == InitLaw /\ [][NextLaw]_vars

\* ------------------------------------------------------------------------
\* Properties
\* ------------------------------------------------------------------------
Pair(result) == <<result.case_number, result.case_name>>

\* a result without its rank (fusion renumbers the ranks)
Unranked(result) == [result EXCEPT !.rank = 0]

Returned == pc = "returned"

\* position of the first result of a list with the given pair
FirstWithPair(results, pair) ==
    CHOOSE n \in 1..Len(results) :
        /\ Pair(results[n]) = pair
        /\ \A m \in 1..(n - 1) : Pair(results[m]) # pair

PairsOf(results) == {Pair(results[n]) : n \in 1..Len(results)}

\* C1: the fused list never holds two results with the same
\* (case_number, case_name) pair, and a fused result whose pair occurs in
\* the curated list is the curated list's first result with that pair,
\* whatever the similarities are.
C1_DedupCuratedFirst ==
    Returned =>
        /\ \A a, b \in 1..Len(final_results) :
              a # b => Pair(final_results[a]) # Pair(final_results[b])
        /\ \A a \in 1..Len(final_results) :
              Pair(final_results[a]) \in PairsOf(curated_results) =>
                  Unranked(final_results[a]) =
                      Unranked(curated_results[
                          FirstWithPair(curated_results, Pair(final_results[a]))])

\* a pair found by both sources, the bulk result more similar than the
\* curated one, and the pair is in the fused list
C1_Witness ==
    /\ Returned
    /\ \E c \in 1..Len(curated_results), h \in 1..Len(hf_results) :
          /\ Pair(curated_results[c]) = Pair(hf_results[h])
          /\ hf_results[h].similarity > curated_results[c].similarity
          /\ Pair(curated_results[c]) \in PairsOf(final_results)

\* C2: the ranks of the returned list are 1, 2, ..., N in list order.
C2_RanksContiguous ==
    Returned => \A n \in 1..Len(final_results) : final_results[n].rank = n

\* a bulk result is returned at a position that is not the rank its own
\* search gave it
C2_Witness ==
    /\ Returned
    /\ \E n \in 1..Len(final_results), h \in 1..Len(hf_results) :
          /\ Unranked(final_results[n]) = Unranked(hf_results[h])
          /\ hf_results[h].rank # n

\* C3: search_similar_cases returns at most top_k results.
C3_AtMostTopK ==
    Returned => Len(final_results) <= call.top_k

\* C4: in the returned list every curated result precedes every bulk result.
C4_CuratedBeforeBulk ==
    Returned =>
        \A a, b \in 1..Len(final_results) :
            (final_results[a].source = CURATED /\ final_results[b].source = HUGGINGFACE)
                => a < b

\* a curated result is returned ahead of a more similar bulk result
C4_Witness ==
    /\ Returned
    /\ \E a, b \in 1..Len(final_results) :
          /\ final_results[a].source = CURATED
          /\ final_results[b].source = HUGGINGFACE
          /\ final_results[b].similarity > final_results[a].similarity

\* the similarity the ranker computes for a logged candidate
LoggedSimilarity(entry) == Cosine(encode(call.query), entry.vec)

IsBulkKey(key) ==
    Len(key) >= Len(HUGGINGFACE)
    /\ SubSeq(key, Len(key) - Len(HUGGINGFACE) + 1, Len(key)) = HUGGINGFACE

\* C5: every per-source result has a similarity of at least 0.05 (curated)
\* or 0.1 (bulk), and so has every fused result.
C5_ThresholdCutoff ==
    pc # "idle" =>
        /\ \A n \in 1..Len(curated_results) :
              curated_results[n].similarity >= MinSimCurated
        /\ \A n \in 1..Len(hf_results) :
              hf_results[n].similarity >= MinSimBulk
        /\ \A n \in 1..Len(final_results) :
              final_results[n].similarity >=
                  (IF final_results[n].source = CURATED
                   THEN MinSimCurated ELSE MinSimBulk)

\* a curated result between the two thresholds is returned, and a bulk
\* candidate below the bulk threshold was ranked and dropped
C5_Witness ==
    /\ Returned
    /\ \E n \in 1..Len(final_results) :
          /\ final_results[n].source = CURATED
          /\ final_results[n].similarity < MinSimBulk
    /\ \E n \in 1..Len(encode_log) :
          /\ IsBulkKey(encode_log[n].key)
          /\ encode_log[n].vec # <<>>
          /\ LoggedSimilarity(encode_log[n]) < MinSimBulk
    /\ ~call.hf_raised

NonIncreasing(results) ==
    \A n \in 1..(Len(results) - 1) :
        results[n].similarity >= results[n + 1].similarity

\* C6: each per-source result list is ordered by non-increasing similarity,
\* and the results of one source keep that order in the fused list.
C6_RankMonotonic ==
    pc # "idle" =>
        /\ NonIncreasing(curated_results)
        /\ NonIncreasing(hf_results)
        /\ \A a, b \in 1..Len(final_results) :
              (a < b /\ final_results[a].source = final_results[b].source)
                  => final_results[a].similarity >= final_results[b].similarity

\* both per-source lists hold results of different similarity
C6_Witness ==
    /\ Returned
    /\ \E a, b \in 1..Len(curated_results) :
          curated_results[a].similarity > curated_results[b].similarity
    /\ \E a, b \in 1..Len(hf_results) :
          hf_results[a].similarity > hf_results[b].similarity
    /\ Len(final_results) >= 4

\* the results of one source are all returned, but for those whose case_key
\* an earlier result has and those beyond the top_k cut
ReturnsAllOf(results) ==
    \A c \in 1..Len(results) :
        \/ \E n \in 1..Len(final_results) :
              Unranked(final_results[n]) = Unranked(results[c])
        \/ \E b \in 1..(c - 1) : case_key(results[b]) = case_key(results[c])
        \/ Len(final_results) >= call.top_k

\* C7: when the search of one source raises, search_similar_cases does not
\* raise: the failing source contributes an empty list and the results of
\* the other source are returned.
C7_SourceFailureIsolated ==
    /\ pc # "raised"
    /\ (Returned /\ call.hf_raised) =>
          /\ hf_results = <<>>
          /\ ReturnsAllOf(curated_results)
          /\ \A n \in 1..Len(final_results) : final_results[n].source = CURATED
    /\ (Returned /\ call.curated_raised) =>
          /\ curated_results = <<>>
          /\ ReturnsAllOf(hf_results)
          /\ \A n \in 1..Len(final_results) : final_results[n].source = HUGGINGFACE

\* the bulk search raised and two curated results are returned
C7_Witness ==
    /\ Returned
    /\ call.hf_raised
    /\ ~call.curated_raised
    /\ Len(final_results) >= 2

RowCaseKey(row) == row.case_number \o <<"_">> \o row.case_name

\* every curated row is in the candidate pool, passes the keyword prefilter,
\* was embedded and passes the curated threshold, and no two rows have the
\* same case identity (the key the fusion compares)
AllCuratedMatch ==
    /\ Len(search_df(curated_df, call.case_type)) = Len(curated_df)
    /\ \A i \in 1..Len(curated_df) :
          /\ ScoreMemo[call.query][curated_df[i]] > 0
          /\ \E n \in 1..Len(encode_log) :
                /\ encode_log[n].key = cache_key(curated_df[i], CURATED)
                /\ encode_log[n].vec # <<>>
                /\ LoggedSimilarity(encode_log[n]) >= MinSimCurated
    /\ \A i, j \in 1..Len(curated_df) :
          i # j => RowCaseKey(curated_df[i]) # RowCaseKey(curated_df[j])

\* C8: with an empty bulk corpus, n <= 3 curated records that all match the
\* query and top_k = 5, exactly those n records are returned, ranked 1..n;
\* with both corpora empty the empty list is returned.
C8_CuratedOnlyScenario ==
    /\ pc # "raised"
    /\ (Returned /\ df = <<>> /\ curated_df = <<>>) => final_results = <<>>
    /\ (Returned /\ df = <<>> /\ call.top_k = 5 /\ Len(curated_df) <= 3
        /\ AllCuratedMatch) =>
          /\ Len(final_results) = Len(curated_df)
          /\ \A n \in 1..Len(final_results) :
                /\ final_results[n].rank = n
                /\ final_results[n].source = CURATED
          /\ {final_results[n].case_id : n \in 1..Len(final_results)}
                = {curated_df[i].id : i \in 1..Len(curated_df)}

\* the scenario with three curated records
C8_Witness ==
    /\ Returned
    /\ df = <<>>
    /\ call.top_k = 5
    /\ Len(curated_df) = 3
    /\ AllCuratedMatch
    /\ Len(final_results) = 3

\* a row of the candidate pool of a source matches the query lexically
LexicalMatch(frame) ==
    \E i \in 1..Len(frame) :
        /\ \E n \in 1..Len(search_df(frame, call.case_type)) :
              search_df(frame, call.case_type)[n] = i
        /\ ScoreMemo[call.query][frame[i]] > 0

\* C9: with the encoder not loaded, a search over a corpus that holds
\* records lexically matching the query still returns results.
C9_LexicalFallback ==
    (Returned /\ encoder = "None" /\ (LexicalMatch(curated_df) \/ LexicalMatch(df)))
        => final_results # <<>>

\* C10: the encoder is invoked on a candidate only when its cache key is
\* absent from the cache (neither there before the search nor encoded
\* earlier in it); on a hit the stored vector is used; no stored vector is
\* ever replaced, so a key is encoded at most once and always yields the
\* same vector.
C10_CacheSingleFlight ==
    pc # "idle" =>
        /\ \A n \in 1..Len(encode_log) :
              LET e == encode_log[n]
              IN  /\ e.encoded =>
                        /\ e.key \notin DOMAIN call.cache_before
                        /\ \A m \in 1..(n - 1) :
                              ~(encode_log[m].key = e.key /\ encode_log[m].encoded)
                  /\ e.hit =>
                        /\ ~e.encoded
                        /\ e.key \in DOMAIN embeddings_cache
                  /\ e.vec # <<>> => e.vec = embeddings_cache[e.key]
        /\ \A k \in DOMAIN call.cache_before :
              /\ k \in DOMAIN embeddings_cache
              /\ embeddings_cache[k] = call.cache_before[k]

\* a search that is served one vector from the cache of an earlier search
\* and encodes another one
C10_Witness ==
    /\ Returned
    /\ \E n, m \in 1..Len(encode_log) :
          /\ encode_log[n].hit
          /\ encode_log[n].key \in DOMAIN call.cache_before
          /\ encode_log[m].encoded

\* ------------------------------------------------------------------------
\* Repeated searches (SpecRepeat)
\* ------------------------------------------------------------------------
SimilaritiesOf(results) == [n \in 1..Len(results) |-> results[n].similarity]

\* the search is a repetition of the one before, and neither met a failure
\* of the encoder
Repeated ==
    /\ Returned
    /\ last.made
    /\ ~last.failed
    /\ ~(call.curated_raised \/ call.hf_raised)
    /\ call.query = last.query
    /\ call.top_k = last.top_k
    /\ call.case_type = last.case_type

\* the bulk search falls back to df.sample: the encoder is loaded, the
\* case_type filter leaves rows, and none of them has a keyword score
TakesSample ==
    /\ encoder # "None"
    /\ search_df(df, call.case_type) # <<>>
    /\ keyword_matches(df, search_df(df, call.case_type), call.query) = <<>>

\* C11 (as stated): two searches with the same query, top_k and case_type on
\* unchanged corpora return the same similarity values, position by
\* position, for every query, also one no bulk row has a keyword of.
C11_RepeatIdentical ==
    Repeated => SimilaritiesOf(final_results) = SimilaritiesOf(last.results)

\* C11 (amended): two searches with the same query, top_k and case_type on
\* unchanged corpora return the same similarity values, position by
\* position, whenever the bulk search does not fall back to its random sample.
C11_RepeatIdenticalUnlessSampled ==
    (Repeated /\ ~TakesSample)
        => SimilaritiesOf(final_results) = SimilaritiesOf(last.results)

\* a repeated search that returns curated and bulk results and took every
\* vector from the cache
C11_Witness ==
    /\ Repeated
    /\ ~TakesSample
    /\ encode_log # <<>>
    /\ \A n \in 1..Len(encode_log) : encode_log[n].hit
    /\ \E n, m \in 1..Len(final_results) :
          /\ final_results[n].source = CURATED
          /\ final_results[m].source = HUGGINGFACE

\* a repeated search whose bulk search sampled and that returns other
\* similarity values than the search before
C11_SampleDiverges ==
    /\ Repeated
    /\ TakesSample
    /\ SimilaritiesOf(final_results) # SimilaritiesOf(last.results)

\* ------------------------------------------------------------------------
\* Case verification and citations (SpecLaw)
\* ------------------------------------------------------------------------
LawReturned(op) == law_pc = "returned" /\ law_call.op = op

\* the case-number grammar: a year of 4 digits, a case-type code, digits
IsCaseNumber(s) == CaseNumberGroups(s).matched

\* how the callers read the origin of a verification result: a dict
\* without "source" is shown as local data
LOCAL_DATA == <<"LOCAL">>
SourceOf(result) == Get(result, "source", LOCAL_DATA)

Occurrences(steps, step) == {n \in 1..Len(steps) : steps[n] = step}

\* C12: verify_case_number on a string outside the case-number grammar
\* returns exists=false with the invalid-format message, and neither the
\* local table nor the AI service is consulted.
C12_InvalidRejected ==
    (LawReturned("verify_case_number") /\ ~IsCaseNumber(law_call.text))
        => /\ law_result.exists = FALSE
           /\ law_result.message = InvalidFormat(law_call.text).message
           /\ Occurrences(law_steps, "sample_cases") = {}
           /\ Occurrences(law_steps, "get_completion") = {}

C14_AIOnlyAfterMiss ==
    LawReturned("verify_case_number")
        => LET calls == Occurrences(law_steps, "get_completion")
           IN  /\ Cardinality(calls) <= 1
               /\ calls # {}
                     => /\ IsCaseNumber(law_call.text)
                        /\ law_call.text \notin DOMAIN sample_cases
                        /\ law_call.use_ai_search
                        /\ \A n \in calls :
                              \E a, b \in 1..(n - 1) :
                                 /\ a < b
                                 /\ law_steps[a] = "re.match"
                                 /\ law_steps[b] = "sample_cases"

\* the response yields a JSON object with exists:true: the text from its
\* first "{" to its last "}" is a JSON object whose exists member is true
YieldsExistsTrue(service) ==
    /\ service.kind = "text"
    /\ LET first == Find(service.text, "{")
           final == RFind(service.text, "}")
       IN  /\ first # 0
           /\ final > first
           /\ IsJSONObject(SubSeq(service.text, first, final))
           /\ JSONExists(SubSeq(service.text, first, final))

\* the AI fallback of the call ran
AIFallbackRan == Occurrences(law_steps, "OpenAIAPI") # {}

IsArticleNumber(a) == ArticleGroups(<<"je">> \o a \o <<"jo">>).matched

\* the statute-article grammar: a law name, 제, an article number, 조
IsStatuteCitation(c) ==
    /\ c # <<>>
    /\ c[Len(c)] = "jo"
    /\ \E n \in 1..(Len(c) - 1) : ArticleGroups(Drop(c, n)).matched

\* the case-number grammar with its optional leading court name
IsCaseCitation(c) ==
    /\ c # <<>>
    /\ IsDigit(c[Len(c)])
    /\ citation_case_pattern(c).matched

\* C16: validate_legal_citation returns a structured result for every
\* input string and never raises; for an input that matches neither the
\* statute-article grammar nor the case-number grammar the type is UNKNOWN,
\* is_valid is false, an error message is given and no lookup is made.
C16_UnknownForMalformed ==
    (law_pc # "idle" /\ law_call.op = "validate_legal_citation")
        => /\ law_pc = "returned"
           /\ DOMAIN law_result = {"citation", "is_valid", "type", "details"}
           /\ law_result.citation = law_call.text
           /\ (~IsStatuteCitation(law_call.text) /\ ~IsCaseCitation(law_call.text))
                 => /\ law_result.type = UNKNOWN
                    /\ law_result.is_valid = FALSE
                    /\ "error" \in DOMAIN law_result.details
                    /\ law_steps = <<"law_pattern", "case_pattern">>

\* the canonical reconstruction of a parsed citation: court and full case
\* number, or law name, 제, article number and 조
Reconstruct(result) ==
    IF result.type = CASE_NUMBER
    THEN result.details.court \o result.details.full_case_number
    ELSE IF result.type = LAW_ARTICLE
         THEN result.details.law_name \o <<"je">>
                  \o result.details.article_number \o <<"jo">>
         ELSE result.citation

\* C17: for every well-formed citation, parsing the canonical
\* reconstruction of its parse gives the same type and the same fields as
\* parsing the citation (the service answering as before).
C17_ParseIdempotent ==
    (/\ LawReturned("validate_legal_citation")
     /\ IsStatuteCitation(law_call.text) \/ IsCaseCitation(law_call.text))
        => LET again == validate_legal_citation(Reconstruct(law_result),
                                                law_call.service).ret
           IN  /\ again.type = law_result.type
               /\ again.is_valid = law_result.is_valid
               /\ again.details = law_result.details

\* the court name a case citation starts with, "대법원" when it starts
\* with none
CourtGiven(c) ==
    IF \E court \in court_prefixes : StartsWith(c, court)
    THEN CHOOSE court \in court_prefixes : StartsWith(c, court)
    ELSE SUPREME_COURT

\* C18: for a case-number citation the court field of the result is the
\* leading court name when one is given and "대법원" otherwise, whether
\* the case is found or not.
C18_CourtField ==
    (LawReturned("validate_legal_citation") /\ IsCaseCitation(law_call.text))
        => /\ law_result.type = CASE_NUMBER
           /\ law_result.details.court = CourtGiven(law_call.text)

\* C19: a citation <law name> 제<digits>[의<digits>]조 is parsed as
\* LAW_ARTICLE with the given law name and the article number unchanged,
\* found in the table or not ("형법 제243조": 형법 / 243; "형법 제44의7조":
\* 44의7).
C19_LawArticleFields ==
    LawReturned("validate_legal_citation")
        => \A l \in LawNameInputs, s \in Separators, a \in ArticleInputs :
              (IsArticleNumber(a)
               /\ law_call.text = l \o s \o <<"je">> \o a \o <<"jo">>)
                  => /\ law_result.type = LAW_ARTICLE
                     /\ law_result.details.law_name = l
                     /\ law_result.details.article_number = a

\* "형법 제44의7조", which the table does not hold, parsed with its suffix
C19_Witness ==
    /\ LawReturned("validate_legal_citation")
    /\ law_call.text = CRIMINAL_CODE \o <<" ", "je", "4", "4", "ui", "7", "jo">>
    /\ law_result.is_valid = FALSE
    /\ law_result.details.law_name = CRIMINAL_CODE
    /\ law_result.details.article_number = <<"4", "4", "ui", "7">>

\* the keys of the statute table: 형법 243 and 347, 민법 750, and 44의7 of
\* the network act under its full and its short name
ArticleKeys ==
    { <<CRIMINAL_CODE, <<"2", "4", "3">> >>, <<CRIMINAL_CODE, <<"3", "4", "7">> >>,
      <<CIVIL_CODE, <<"7", "5", "0">> >>,
      <<NETWORK_ACT, <<"4", "4", "ui", "7">> >>,
      <<NETWORK_ACT_SHORT, <<"4", "4", "ui", "7">> >> }

\* C20: get_law_article returns exists=true with the table entry exactly
\* for the exact keys of the statute table and exists=false with a message
\* otherwise, and validate_legal_citation reports a law-article citation
\* valid exactly for those keys.
C20_ExactKeysOnly ==
    /\ LawReturned("get_law_article")
          => LET key == <<law_call.law_name, law_call.article_number>>
             IN  /\ law_result.exists = (key \in ArticleKeys)
                 /\ law_result.exists
                       => law_result = Update(law_articles[key[1]][key[2]],
                                              [exists |-> TRUE])
                 /\ ~law_result.exists => "message" \in DOMAIN law_result
    /\ (LawReturned("validate_legal_citation") /\ law_result.type = LAW_ARTICLE)
          => law_result.is_valid
                 = (<<law_result.details.law_name,
                      law_result.details.article_number>> \in ArticleKeys)

\* 정보통신망법 44의7 looked up, a key of the table under the short name
C20_Witness ==
    /\ LawReturned("get_law_article")
    /\ law_call.law_name = NETWORK_ACT_SHORT
    /\ law_call.article_number = <<"4", "4", "ui", "7">>
    /\ law_result.exists

\* ------------------------------------------------------------------------
\* Requests, prefilter and ranking of the per-source searches (Spec)
\* ------------------------------------------------------------------------
\* ceil(n / 2)
CeilHalf(n) == (n + 1) \div 2

\* the results of a list that come from one source
FromSource(results, source) ==
    SelectSeq(results, LAMBDA r : r.source = source)

\* C21: for every top_k >= 1 the curated source is asked for
\* ceil(top_k/2)+1 results and the bulk source for top_k, and the fused list
\* holds at most min(top_k, ceil(top_k/2)+1) curated results.
C21_CuratedRequest ==
    (pc # "idle" /\ call.top_k >= 1) =>
        /\ call.curated.queried =>
              call.curated.top_k = CeilHalf(call.top_k) + 1
        /\ call.hf.queried => call.hf.top_k = call.top_k
        /\ Len(FromSource(final_results, CURATED))
              <= Min(call.top_k, CeilHalf(call.top_k) + 1)

\* the legal keywords that occur in the query and in the text of a record
SharedKeywords(row, query_lower) ==
    {k \in 1..Len(legal_keywords) :
        /\ Contains(query_lower, legal_keywords[k])
        /\ \/ Contains(Lower(row.input), legal_keywords[k])
           \/ Contains(Lower(row.output), legal_keywords[k])}

\* the score of a record when a legal keyword counts only if the query has it
SharedKeywordScore(row, query_lower) ==
    LET query_words == Split(query_lower)
    IN  FullQueryScore(row, query_lower)
        + SumSeq([w \in 1..Len(query_words) |-> WordScore(row, query_words[w])])
        + 2 * Cardinality(SharedKeywords(row, query_lower))

\* SharedKeywordScore of every row for query.lower(), evaluated once per pair
SharedScoreMemo ==
    [query \in Queries |->
        [row \in AllRows |-> SharedKeywordScore(row, Lower(query))]]

\* the matched set of a pool when scored by SharedKeywordScore
SharedMatches(frame, pool, query) ==
    SelectSeq([n \in 1..Len(pool) |->
                  <<pool[n], SharedScoreMemo[query][frame[pool[n]]]>>],
              LAMBDA m : m[2] > 0)

\* C22: a legal keyword adds 2 to the score of a record only if it occurs in
\* the query and in the record's text, so the matched set of either source
\* is the records of the pool that score above 0 that way, with those scores.
C22_KeywordInBoth ==
    pc # "idle" =>
        /\ call.curated.matches
              = SharedMatches(curated_df, call.curated.pool, call.query)
        /\ call.hf.matches = SharedMatches(df, call.hf.pool, call.query)

\* the rows of a pool with a keyword score above 0
Matched(frame, pool, query) ==
    {i \in Range(pool) : ScoreMemo[query][frame[i]] > 0}

\* row i is ahead of row j in the order of the prefilter: a higher keyword
\* score, or the same score and an earlier position in the corpus
AheadByScore(frame, query, i, j) ==
    \/ ScoreMemo[query][frame[i]] > ScoreMemo[query][frame[j]]
    \/ ScoreMemo[query][frame[i]] = ScoreMemo[query][frame[j]] /\ i < j

\* the candidates of a per-source search are the best-scored matched rows
BestMatched(frame, stage, query) ==
    LET matched == Matched(frame, stage.pool, query)
    IN  matched # {} =>
            /\ Len(stage.cands) = Min(3 * stage.top_k, Cardinality(matched))
            /\ Cardinality(Range(stage.cands)) = Len(stage.cands)
            /\ Range(stage.cands) \subseteq matched
            /\ \A i \in Range(stage.cands), j \in matched \ Range(stage.cands) :
                  AheadByScore(frame, query, i, j)

\* C23: when a record of the pool has a keyword score above 0, the
\* candidates passed to the embedding stage are exactly the
\* min(3*top_k, number of matched records) highest-scoring matched records,
\* equal scores resolved in favour of the earlier corpus position; no record
\* with score 0 is among them (top_k is the one given to the per-source
\* search).
C23_BestMatchedSelected ==
    pc # "idle" =>
        /\ BestMatched(curated_df, call.curated, call.query)
        /\ BestMatched(df, call.hf, call.query)

\* more records match than 3*top_k allows, and the cut falls between two
\* records of equal score
C23_Witness ==
    /\ pc # "idle"
    /\ call.curated.top_k >= 1
    /\ Cardinality(Matched(curated_df, call.curated.pool, call.query))
          > 3 * call.curated.top_k
    /\ \E i \in Range(call.curated.cands) :
          \E j \in Matched(curated_df, call.curated.pool, call.query)
                    \ Range(call.curated.cands) :
              ScoreMemo[call.query][curated_df[i]]
                  = ScoreMemo[call.query][curated_df[j]]

\* position among the candidates of a per-source search of the row a result
\* was built from
CandidatePosition(frame, stage, result) ==
    CHOOSE n \in 1..Len(stage.cands) : frame[stage.cands[n]].id = result.case_id

\* candidates of equal similarity come out in candidate order, and of such
\* candidates the earlier ones survive the cut
TiesInCandidateOrder(frame, stage, results, source) ==
    /\ \A a, b \in 1..Len(results) :
          (a < b /\ results[a].similarity = results[b].similarity) =>
              CandidatePosition(frame, stage, results[a])
                  < CandidatePosition(frame, stage, results[b])
    /\ \A a \in 1..Len(results), n \in 1..Len(stage.log) :
          (/\ stage.log[n].vec # <<>>
           /\ LoggedSimilarity(stage.log[n]) = results[a].similarity
           /\ \A b \in 1..Len(results) :
                 CandidatePosition(frame, stage, results[b]) # n)
              => CandidatePosition(frame, stage, results[a]) < n

\* C24: among candidates with equal similarity to the query the per-source
\* result list keeps the original candidate order, and that order decides
\* which of them survive the top_k cut.
C24_StableRanking ==
    pc # "idle" =>
        /\ TiesInCandidateOrder(curated_df, call.curated, curated_results, CURATED)
        /\ TiesInCandidateOrder(df, call.hf, hf_results, HUGGINGFACE)

\* the rows of a dataframe whose data_type contains a token, in corpus order
RowsOfType(frame, token) ==
    SelectSeq([i \in 1..Len(frame) |-> i],
              LAMBDA i : Contains(frame[i].data_type, token))

\* a per-source search got as far as building its candidate pool
PoolBuilt(frame, stage) == stage.queried /\ frame # <<>> /\ encoder # "None"

AllOfType(results, token) ==
    \A n \in 1..Len(results) : Contains(results[n].data_type, token)

\* C26: for a known case_type the pool of the curated and of the bulk source
\* is restricted, before the prefilter, to the records whose data_type
\* contains the mapped token, so every returned result has such a
\* data_type; with case_type absent or "전체" the pool is the whole corpus.
C26_CaseTypeFilter ==
    pc # "idle" =>
        /\ call.case_type \in case_type_map_keys =>
              LET token == case_type_map(call.case_type)
              IN  /\ PoolBuilt(curated_df, call.curated) =>
                        call.curated.pool = RowsOfType(curated_df, token)
                  /\ PoolBuilt(df, call.hf) =>
                        call.hf.pool = RowsOfType(df, token)
                  /\ \A n \in 1..Len(call.curated.matches) :
                        call.curated.matches[n][1] \in Range(call.curated.pool)
                  /\ \A n \in 1..Len(call.hf.matches) :
                        call.hf.matches[n][1] \in Range(call.hf.pool)
                  /\ AllOfType(curated_results, token)
                  /\ AllOfType(hf_results, token)
                  /\ AllOfType(final_results, token)
        /\ call.case_type \in {NoCaseType, ALL_TYPES} =>
              /\ PoolBuilt(curated_df, call.curated) =>
                    call.curated.pool = [i \in 1..Len(curated_df) |-> i]
              /\ PoolBuilt(df, call.hf) =>
                    call.hf.pool = [i \in 1..Len(df) |-> i]

\* a search for "판결문" returns a result while a bulk record of another
\* data_type with a keyword score above 0 and every curated record is left out
C26_Witness ==
    /\ Returned
    /\ call.case_type \in case_type_map_keys
    /\ final_results # <<>>
    /\ PoolBuilt(curated_df, call.curated)
    /\ call.curated.pool = <<>>
    /\ \E i \in 1..Len(df) :
          /\ i \notin Range(call.hf.pool)
          /\ ScoreMemo[call.query][df[i]] > 0

\* the case_type of the search is a value the code does not know
UnknownCaseType ==
    call.case_type \notin ({NoCaseType, ALL_TYPES} \cup case_type_map_keys)

\* the search went as a search without case_type can go from the same cache
AsWithoutCaseType ==
    \E c \in (IF curated_df # <<>>
              THEN _search_in_dataframe(curated_df, call.query,
                                        call.curated.top_k, NoCaseType, CURATED,
                                        encoder, call.cache_before,
                                        call.curated_fault)
              ELSE {NotQueried(call.cache_before)}) :
       \E h \in (IF df # <<>>
                 THEN _search_in_dataframe(df, call.query, call.hf.top_k,
                                           NoCaseType, HUGGINGFACE, encoder,
                                           c.cache, call.hf_fault)
                 ELSE {NotQueried(c.cache)}) :
          /\ curated_results = c.results
          /\ hf_results = h.results
          /\ embeddings_cache = h.cache
          /\ final_results = Fuse(c.results, h.results, call.top_k)

\* C27 (as stated): a case_type that is neither absent, "전체" nor a known
\* category matches nothing: the search returns the empty list.
C27_UnknownMatchesNothing ==
    (Returned /\ UnknownCaseType) => final_results = <<>>

\* C27 (amended): a case_type that is neither absent, "전체" nor a known
\* category restricts nothing: the pool of each source is its whole corpus
\* and the search goes as it does without a case_type.
C27_UnknownRestrictsNothing ==
    (Returned /\ UnknownCaseType) =>
        /\ PoolBuilt(curated_df, call.curated) =>
              call.curated.pool = [i \in 1..Len(curated_df) |-> i]
        /\ PoolBuilt(df, call.hf) => call.hf.pool = [i \in 1..Len(df) |-> i]
        /\ AsWithoutCaseType

\* a search with the unknown case_type "기타" returns a curated result and
\* bulk results of two data types
C27_Witness ==
    /\ Returned
    /\ UnknownCaseType
    /\ \E a, b, c \in 1..Len(final_results) :
          /\ final_results[a].source = CURATED
          /\ final_results[b].source = HUGGINGFACE
          /\ final_results[c].source = HUGGINGFACE
          /\ final_results[b].data_type # final_results[c].data_type

\* the (id, data_type, source) of a row of a source
KeyParts(row, source) == <<row.id, row.data_type, source>>

\* the rows of both corpora, each with the source it is searched as
SourcedRows ==
    {<<curated_df[i], CURATED>> : i \in 1..Len(curated_df)}
        \cup {<<df[i], HUGGINGFACE>> : i \in 1..Len(df)}

\* the vector used for each candidate of a per-source search is the encoding
\* of that candidate's text
VectorsOfOwnText(frame, stage) ==
    \A n \in 1..Len(stage.log) :
        stage.log[n].vec # <<>> =>
            stage.log[n].vec = encode(RowText(frame[stage.cands[n]]))

\* C28: records that differ in id, data_type or source have different cache
\* keys, so the vector a search uses for a candidate, and the vector the
\* cache holds under the key of a record, is the encoding of that record's
\* text.
C28_CacheKeyIdentifies ==
    pc # "idle" =>
        /\ VectorsOfOwnText(curated_df, call.curated)
        /\ VectorsOfOwnText(df, call.hf)
        /\ \A r \in SourcedRows :
              cache_key(r[1], r[2]) \in DOMAIN embeddings_cache =>
                  embeddings_cache[cache_key(r[1], r[2])] = encode(RowText(r[1]))
        /\ \A r, q \in SourcedRows :
              (/\ KeyParts(r[1], r[2]) # KeyParts(q[1], q[2])
               /\ cache_key(r[1], r[2]) \in DOMAIN embeddings_cache)
                  => cache_key(r[1], r[2]) # cache_key(q[1], q[2])

\* C29: no step changes the curated or the bulk corpus (nor the encoder),
\* whether the search fails or not; the embedding cache only gains entries:
\* every entry stays, with its vector.
C29_CorporaReadOnly ==
    [][/\ curated_df' = curated_df
       /\ df' = df
       /\ encoder' = encoder
       /\ \A k \in DOMAIN embeddings_cache :
             /\ k \in DOMAIN embeddings_cache'
             /\ embeddings_cache'[k] = embeddings_cache[k]]_vars

\* a search whose bulk part failed has added entries to a cache that held
\* some, and both corpora hold records
C29_Witness ==
    /\ Returned
    /\ call.hf_raised
    /\ curated_df # <<>>
    /\ df # <<>>
    /\ call.cache_before # <<>>
    /\ \E k \in DOMAIN embeddings_cache : k \notin DOMAIN call.cache_before

\* C30: fusion drops a result only as a duplicate of a result with the same
\* case_number and the same case_name: every (case_number, case_name) pair
\* of the per-source results is in the fused list, unless the list was cut
\* at top_k.
C30_DistinctPairsKept ==
    Returned =>
        \/ Len(final_results) >= call.top_k
        \/ PairsOf(curated_results \o hf_results) \subseteq PairsOf(final_results)

\* ------------------------------------------------------------------------
\* The JSON object of the AI fallback (SpecLaw)
\* ------------------------------------------------------------------------
\* opening minus closing braces of text[i..n]
RECURSIVE BraceDepth(_, _, _)
BraceDepth(text, i, n) ==
    IF n < i
    THEN 0
    ELSE BraceDepth(text, i, n - 1)
         + (IF text[n] = "{" THEN 1 ELSE IF text[n] = "}" THEN -1 ELSE 0)

\* text[i..j] is a balanced {...}
BalancedAt(text, i, j) ==
    /\ text[i] = "{"
    /\ BraceDepth(text, i, j) = 0
    /\ \A n \in i..(j - 1) : BraceDepth(text, i, n) > 0

\* the first balanced {...} substring of a text, <<>> when there is none
FirstBalanced(text) ==
    LET starts == {i \in 1..Len(text) : \E j \in i..Len(text) : BalancedAt(text, i, j)}
    IN  IF starts = {}
        THEN <<>>
        ELSE LET i == CHOOSE a \in starts : \A b \in starts : a <= b
                 j == CHOOSE b \in i..Len(text) : BalancedAt(text, i, b)
             IN  SubSeq(text, i, j)

\* C25: the AI fallback parses the first balanced {...} substring of the
\* response, whatever precedes or follows it: the case is reported as
\* existing, with source "AI 검색", exactly when that substring is a JSON
\* object with exists true, also when text with braces follows it.
C25_FirstBalancedParsed ==
    (/\ LawReturned("verify_case_number")
     /\ AIFallbackRan
     /\ law_call.service.kind = "text") =>
        LET object == FirstBalanced(law_call.service.text)
        IN  (IsJSONObject(object) /\ JSONExists(object))
                <=> (/\ Get(law_result, "exists", FALSE)
                     /\ SourceOf(law_result) = AI_SEARCH)
====
